---- MODULE Spec2Model ----
(***************************************************************************)
(* Transaction signing and authentication subsystem of lighter-rust:       *)
(* the foreign result parsers, the signer facade (sign_tx_data) and the    *)
(* auth token cache (get_auth_token) of src/signer.                        *)
(*                                                                         *)
(* Seven specifications share the module:                                  *)
(*   ParseSpec     the result decoders applied to every engine result;     *)
(*   NewSpec       Signer::try_from applied to every configuration;        *)
(*   Spec          one Signer serving calls, one call at a time;           *)
(*   SerialSpec    one caller signing and fetching tokens as time passes;  *)
(*   AuthSpec      threads calling get_auth_token on one FFISigner;        *)
(*   AuthFairSpec  the same threads under fair scheduling;                 *)
(*   ClientSpec    threads calling get_nonce and the API accessors of one  *)
(*                 HttpClient.                                             *)
(***************************************************************************)
EXTENDS Integers, Sequences, FiniteSets, TLC

\* ------------------------------------------------------------------ bounds

\* Longest member list of a JSON object text returned by the engine.
MaxMembers == 2
\* Longest sub-order list of a grouped-orders intent.
MaxOrders == 2
\* Threads calling get_auth_token.
NumThreads == 2
\* The clock runs from 0 to MaxNow.
MaxNow == 3
\* Refresh calls (engine token calls) made over a run.
MaxRefresh == 2
\* get_nonce calls issued over a run.
MaxCalls == 3

\* ------------------------------------------------------------------- state

VARIABLES
    config,         \* the LighterConfig the signer is built from
    ffi,            \* Signer.ffi: the FFISigner, once built
    eth,            \* Signer.eth: the secondary key, if configured
    pc,             \* position of the single caller of Spec and ParseSpec
    call,           \* the sign_* call being served: its TxData and nonce
    res,            \* the engine result of the call
    ret,            \* what the call returned
    frees,          \* fields of res passed to libc::free, in order
    native_calls,   \* native-engine calls made by the call, in order
    auth_token,     \* FFISigner.auth_token: the cache cell
    readers,        \* threads holding the RwLock's read guard
    writer,         \* the thread holding its write guard, if any
    now,            \* Utc::now().timestamp()
    tpc,            \* per thread: position inside get_auth_token
    targ,           \* per thread: expiration_timestamp argument
    new_token,      \* per thread: local new_token
    deadline,       \* per thread: local deadline of create_auth_token_with_expiry
    eres,           \* per thread: the StrOrErr the engine returned
    tret,           \* per thread: what get_auth_token returned
    refreshes,      \* history: engine token calls made so far
    issued,         \* history: pairs produced by successful refresh calls
    entry,          \* history, per thread: the cache when its call began
    dirty,          \* history, per thread: another thread stored since
    nonce_manager,  \* HttpClient.nonce_manager: the local counter, if any
    apis,           \* HttpClient.apis: the APIs whose field is set
    npc,            \* per thread: position inside get_nonce
    nret,           \* per thread: what get_nonce returned
    handed,         \* history: nonces in the order the counter handed them out
    ticket,         \* history, per thread: when its get_nonce call was issued
    tickets,        \* history: get_nonce calls issued so far
    accessed,       \* the ApiInterface accessor called last and its result
    queries         \* history: the next_nonce queries sent, in order

signerVars == <<config, ffi, eth>>
signVars == <<signerVars, pc, call, res, ret, frees, native_calls>>
authVars == <<auth_token, readers, writer, now, tpc, targ, new_token, deadline,
              eres, tret, refreshes, issued, entry, dirty>>
clientVars == <<nonce_manager, apis, npc, nret, handed, ticket, tickets,
                accessed, queries>>
vars == <<signVars, authVars, clientVars>>

\* ------------------------------------------------------- values and options

None == [some |-> FALSE]
Some(v) == [some |-> TRUE, v |-> v]

\* A C pointer field of an engine result: null, or a heap string owned by
\* the caller.
Null == [null |-> TRUE]
Ptr(s) == [null |-> FALSE, s |-> s]
is_null(p) == p.null

\* Result<T, LighterError>; Panic is the unwinding of an unwrap().
Ok(v) == [tag |-> "Ok", val |-> v]
Err(e) == [tag |-> "Err", err |-> e]
Panic == [tag |-> "Panic"]
NoRet == [tag |-> "None"]

Signing(msg) == [variant |-> "Signing", msg |-> msg]
Generic(msg) == [variant |-> "Generic", msg |-> msg]
Config(msg) == [variant |-> "Config", msg |-> msg]

\* ------------------------------------------------------------ C strings

\* Byte strings are sequences of symbols; "xFF" is a byte that is not valid
\* UTF-8. CStr::to_string_lossy replaces it by U+FFFD and keeps the rest.
to_string_lossy(bytes) ==
    [i \in DOMAIN bytes |-> IF bytes[i] = "xFF" THEN "uFFFD" ELSE bytes[i]]

\* The error and token strings the engine may hand back.
EngineStrings == {<<"e">>, <<"e", "xFF">>}

\* ----------------------------------------------------------------- JSON

\* The keys sign_tx_data reads or writes, and one it does not touch.
JsonKeys == {"L1Sig", "MessageToSign", "Nonce"}

JString(s) == [t |-> "string", s |-> s]
JNumber == [t |-> "number", s |-> <<>>]

\* Member values of an engine payload: a string and a non-string.
JsonValues == {JString(<<"m">>), JNumber}

RECURSIVE SeqsUpTo(_, _)
SeqsUpTo(S, n) ==
    IF n = 0 THEN {<<>>}
    ELSE LET shorter == SeqsUpTo(S, n - 1)
         IN  shorter \cup {Append(q, x) : q \in {r \in shorter : Len(r) = n - 1}, x \in S}

\* A txInfo text, as decoded: not JSON at all, a JSON value that is not an
\* object, or an object text listing members in the order written
\* (duplicate keys included).
Garbage == [kind |-> "garbage", members |-> <<>>]
Scalar == [kind |-> "scalar", members |-> <<>>]
ObjectText(ms) == [kind |-> "object", members |-> ms]
TxTexts ==
    {Garbage, Scalar}
        \cup {ObjectText(ms) : ms \in SeqsUpTo(JsonKeys \X JsonValues, MaxMembers)}

\* serde_json::Value. An object is a map from its keys to values.
EmptyMap == [k \in {} |-> JNumber]
ValueScalar == [kind |-> "scalar", map |-> EmptyMap]
ValueObject(m) == [kind |-> "object", map |-> m]

\* Parsing an object keeps the last value written for a key.
RECURSIVE MapOf(_)
MapOf(ms) ==
    IF ms = <<>> THEN EmptyMap
    ELSE LET last == ms[Len(ms)]
         IN  (last[1] :> last[2]) @@ MapOf(SubSeq(ms, 1, Len(ms) - 1))

from_str(text) ==
    CASE text.kind = "garbage" -> Err(<<"expected value">>)
      [] text.kind = "scalar" -> Ok(ValueScalar)
      [] OTHER -> Ok(ValueObject(MapOf(text.members)))

\* Keys in the order of a BTreeMap<String, Value>.
KeyRank(k) == CASE k = "L1Sig" -> 1 [] k = "MessageToSign" -> 2 [] OTHER -> 3

RECURSIVE SortedMembers(_, _)
SortedMembers(m, keys) ==
    IF keys = {} THEN <<>>
    ELSE LET k == CHOOSE x \in keys : \A y \in keys : KeyRank(x) <= KeyRank(y)
         IN  <<(<<k, m[k]>>)>> \o SortedMembers(m, keys \ {k})

to_string(value) ==
    IF value.kind = "scalar" THEN Scalar
    ELSE ObjectText(SortedMembers(value.map, DOMAIN value.map))

\* An as_str that answers for a value of any type.
index_as_str_any(value, key) ==
    IF value.kind = "object" /\ key \in DOMAIN value.map
    THEN Some(value.map[key].s)
    ELSE None

\* tx_json["MessageToSign"].as_str(): indexing a non-object or a missing key
\* gives Value::Null, and as_str is None for anything but a string.
index_as_str(value, key) ==
    IF value.kind = "object" /\ key \in DOMAIN value.map /\ value.map[key].t = "string"
    THEN Some(value.map[key].s)
    ELSE None

\* obj.remove(key) left out.
remove_nothing(m, key) == m

remove(m, key) == [k \in DOMAIN m \ {key} |-> m[k]]
insert(m, key, v) == (key :> v) @@ m

\* ------------------------------------------------------ foreign result parser

SignedTxResponse(txInfo, txHash, messageToSign, err) ==
    [shape |-> "SignedTxResponse", txInfo |-> txInfo, txHash |-> txHash,
     messageToSign |-> messageToSign, err |-> err]
StrOrErr(str_, err) == [shape |-> "StrOrErr", str_ |-> str_, err |-> err]
NoResult == [shape |-> "none"]

OptPtrs(S) == {Null} \cup {Ptr(s) : s \in S}

SignedTxResponses ==
    {SignedTxResponse(i, h, m, e) :
        i \in OptPtrs(TxTexts), h \in OptPtrs({<<"h">>}),
        m \in OptPtrs({<<"m">>}), e \in OptPtrs(EngineStrings)}

StrOrErrs == {StrOrErr(s, e) : s \in OptPtrs(EngineStrings), e \in OptPtrs(EngineStrings)}

\* libc::free(field) guarded by !field.is_null().
FreeIfSet(result, f) == IF is_null(result[f]) THEN <<>> ELSE <<f>>

\* A parser that looks at txInfo before err.
parse_signed_tx_response_success_first(result) ==
    IF ~is_null(result.txInfo) THEN
        [ret |-> Ok(result.txInfo.s),
         frees |-> <<"txInfo">> \o FreeIfSet(result, "txHash")
                      \o FreeIfSet(result, "messageToSign")
                      \o FreeIfSet(result, "err")]
    ELSE IF ~is_null(result.err) THEN
        [ret |-> Err(Signing(to_string_lossy(result.err.s))),
         frees |-> <<"err">> \o FreeIfSet(result, "txHash")
                      \o FreeIfSet(result, "messageToSign")]
    ELSE
        [ret |-> Err(Signing(<<"Null txInfo in result">>)), frees |-> <<>>]

\* Each parser yields its return value and the fields it passed to
\* libc::free, in call order. The txInfo text is kept as decoded.
parse_signed_tx_response(result) ==
    IF ~is_null(result.err) THEN
        [ret |-> Err(Signing(to_string_lossy(result.err.s))),
         frees |-> <<"err">> \o FreeIfSet(result, "txInfo")
                      \o FreeIfSet(result, "txHash")
                      \o FreeIfSet(result, "messageToSign")]
    ELSE IF is_null(result.txInfo) THEN
        [ret |-> Err(Signing(<<"Null txInfo in result">>)), frees |-> <<>>]
    ELSE
        [ret |-> Ok(result.txInfo.s),
         frees |-> <<"txInfo">> \o FreeIfSet(result, "txHash")
                      \o FreeIfSet(result, "messageToSign")]

\* A parse_result that takes a null str for the empty string.
parse_result_null_as_empty(result) ==
    IF ~is_null(result.err) THEN
        [ret |-> Err(Signing(to_string_lossy(result.err.s))),
         frees |-> <<"err">> \o FreeIfSet(result, "str_")]
    ELSE IF is_null(result.str_) THEN
        [ret |-> Ok(<<>>), frees |-> <<>>]
    ELSE
        [ret |-> Ok(to_string_lossy(result.str_.s)), frees |-> <<"str_">>]

parse_result(result) ==
    IF ~is_null(result.err) THEN
        [ret |-> Err(Signing(to_string_lossy(result.err.s))),
         frees |-> <<"err">> \o FreeIfSet(result, "str_")]
    ELSE IF is_null(result.str_) THEN
        [ret |-> Err(Signing(<<"Null result">>)), frees |-> <<>>]
    ELSE
        [ret |-> Ok(to_string_lossy(result.str_.s)), frees |-> <<"str_">>]

\* The result of GenerateAPIKey.
ApiKeyResponse(privateKey, publicKey, err) ==
    [shape |-> "ApiKeyResponse", privateKey |-> privateKey,
     publicKey |-> publicKey, err |-> err]

ApiKeyResponses ==
    {ApiKeyResponse(k, p, e) :
        k \in OptPtrs({<<"k">>}), p \in OptPtrs({<<"p">>}),
        e \in OptPtrs(EngineStrings)}

\* A generate_api_key that returns from its null-keys path without freeing.
generate_api_key_leaky(result) ==
    IF ~is_null(result.err) THEN
        [ret |-> Err(Signing(to_string_lossy(result.err.s))),
         frees |-> <<"err">> \o FreeIfSet(result, "privateKey")
                      \o FreeIfSet(result, "publicKey")]
    ELSE IF is_null(result.privateKey) \/ is_null(result.publicKey) THEN
        [ret |-> Err(Signing(<<"Null keys in result">>)), frees |-> <<>>]
    ELSE
        [ret |-> Ok([private_key |-> to_string_lossy(result.privateKey.s),
                     public_key |-> to_string_lossy(result.publicKey.s)]),
         frees |-> <<"privateKey", "publicKey">>]

\* FFISigner::generate_api_key on the result GenerateAPIKey returned.
generate_api_key(result) ==
    IF ~is_null(result.err) THEN
        [ret |-> Err(Signing(to_string_lossy(result.err.s))),
         frees |-> <<"err">> \o FreeIfSet(result, "privateKey")
                      \o FreeIfSet(result, "publicKey")]
    ELSE IF is_null(result.privateKey) \/ is_null(result.publicKey) THEN
        [ret |-> Err(Signing(<<"Null keys in result">>)),
         frees |-> FreeIfSet(result, "privateKey") \o FreeIfSet(result, "publicKey")]
    ELSE
        [ret |-> Ok([private_key |-> to_string_lossy(result.privateKey.s),
                     public_key |-> to_string_lossy(result.publicKey.s)]),
         frees |-> <<"privateKey", "publicKey">>]

\* ------------------------------------------------------------ transaction data

MemoLen == 32

TxKinds ==
    {"ChangePubKey", "CreateOrder", "SignCreateGroupedOrders", "SignCancelOrder",
     "SignWithdraw", "SignCreateSubaccount", "SignCancelAllOrders", "SignModifyOrder",
     "SignTransfer", "SignCreatePublicPool", "SignUpdatePublicPool", "SignMintShares",
     "SignBurnShares", "SignUpdateLeverage", "SignUpdateMargin"}

\* A TxData value: its variant and the fields get_tx_data converts before the
\* call (the remaining fields are integers handed over as they are).
TxData(kind, new_pubk, memo, orders) ==
    [kind |-> kind, new_pubk |-> new_pubk, memo |-> memo, orders |-> orders]

\* "NUL" is the zero byte.
PubKeys == {<<"0x59">>, <<"0x59", "NUL">>}
TextMemo ==
    [i \in 1..MemoLen |-> CASE i = 1 -> "a" [] i = MemoLen -> "z" [] OTHER -> "b"]
Memos == {TextMemo,
          [TextMemo EXCEPT ![MemoLen] = "xFF"],
          [TextMemo EXCEPT ![1] = "NUL"]}
OrderLists == SeqsUpTo({"tp", "sl"}, MaxOrders)

TxDatas ==
    {TxData("ChangePubKey", k, <<>>, <<>>) : k \in PubKeys}
        \cup {TxData("SignTransfer", <<>>, m, <<>>) : m \in Memos}
        \cup {TxData("SignCreateGroupedOrders", <<>>, <<>>, os) : os \in OrderLists}
        \cup {TxData(k, <<>>, <<>>, <<>>) :
                 k \in TxKinds \ {"ChangePubKey", "SignTransfer", "SignCreateGroupedOrders"}}

Nonces == {-1, 1}

HasByte(bytes, b) == \E i \in DOMAIN bytes : bytes[i] = b

\* A CString::new that does not look for zero bytes.
CString_new_unchecked(bytes) == Ok(bytes \o <<"NUL">>)

\* A CString::new whose terminator takes the place of the last byte.
CString_new_fixed_width(bytes) ==
    IF HasByte(bytes, "NUL") THEN Err(<<"nul byte">>)
    ELSE Ok(SubSeq(bytes, 1, Len(bytes) - 1) \o <<"NUL">>)

\* CString::new fails on an interior zero byte; otherwise the buffer is the
\* bytes followed by the terminator.
CString_new(bytes) ==
    IF HasByte(bytes, "NUL") THEN Err(<<"nul byte">>) ELSE Ok(bytes \o <<"NUL">>)

\* What the engine reads through c_string.as_ptr(): the bytes before the
\* first zero byte.
as_ptr(buffer) ==
    LET first == CHOOSE i \in DOMAIN buffer :
                     /\ buffer[i] = "NUL"
                     /\ \A j \in 1..(i - 1) : buffer[j] # "NUL"
    IN  SubSeq(buffer, 1, first - 1)

\* A count taken from the vector's capacity.
orders_capacity(orders) == Len(orders) + 1

\* data.orders.len()
orders_len(orders) == Len(orders)

\* usize as i32: a length above i32::MAX wraps around.
as_i32(n) == IF n <= 2147483647 THEN n ELSE ((n - 2147483647) - 2147483647) - 2
\* str::from_utf8 fails on a byte sequence that is not UTF-8.
from_utf8(bytes) == IF HasByte(bytes, "xFF") THEN Err(<<"invalid utf-8">>) ELSE Ok(bytes)

\* SignMintShares dispatched to the burn function.
EngineFn_burn_for_mint(kind) ==
    CASE kind = "ChangePubKey" -> "SignChangePubKey"
      [] kind = "CreateOrder" -> "SignCreateOrder"
      [] kind = "SignCreateSubaccount" -> "SignCreateSubAccount"
      [] kind = "SignMintShares" -> "SignBurnShares"
      [] OTHER -> kind

\* The ffisigner function each arm of the match calls.
EngineFn(kind) ==
    CASE kind = "ChangePubKey" -> "SignChangePubKey"
      [] kind = "CreateOrder" -> "SignCreateOrder"
      [] kind = "SignCreateGroupedOrders" -> "SignCreateGroupedOrders"
      [] kind = "SignCancelOrder" -> "SignCancelOrder"
      [] kind = "SignWithdraw" -> "SignWithdraw"
      [] kind = "SignCreateSubaccount" -> "SignCreateSubAccount"
      [] kind = "SignCancelAllOrders" -> "SignCancelAllOrders"
      [] kind = "SignModifyOrder" -> "SignModifyOrder"
      [] kind = "SignTransfer" -> "SignTransfer"
      [] kind = "SignCreatePublicPool" -> "SignCreatePublicPool"
      [] kind = "SignUpdatePublicPool" -> "SignUpdatePublicPool"
      [] kind = "SignMintShares" -> "SignMintShares"
      [] kind = "SignBurnShares" -> "SignBurnShares"
      [] kind = "SignUpdateLeverage" -> "SignUpdateLeverage"
      [] kind = "SignUpdateMargin" -> "SignUpdateMargin"

NativeCall(fn, str, list, len, nonce) ==
    [fn |-> fn, str |-> str, list |-> list, len |-> len, nonce |-> nonce]

\* The match of get_tx_data up to the foreign call: the error a conversion
\* returns early with, or the native call to make.
marshal(data, nonce) ==
    CASE data.kind = "ChangePubKey" ->
            LET c_pubkey == CString_new(data.new_pubk)
            IN  IF c_pubkey.tag = "Err"
                THEN Err(Signing(<<"Invalid key">>))
                ELSE Ok(NativeCall(EngineFn(data.kind), as_ptr(c_pubkey.val),
                                   <<>>, 0, nonce))
      [] data.kind = "SignCreateGroupedOrders" ->
            Ok(NativeCall(EngineFn(data.kind), <<>>, data.orders,
                          as_i32(orders_len(data.orders)), nonce))
      [] data.kind = "SignTransfer" ->
            LET text == from_utf8(data.memo)
            IN  IF text.tag = "Err"
                THEN Err(Generic(<<"Invalid memo (non UTF-8)">>))
                ELSE LET memo == CString_new(text.val)
                     IN  IF memo.tag = "Err"
                         THEN Err(Signing(<<"Invalid memo">>))
                         ELSE Ok(NativeCall(EngineFn(data.kind), as_ptr(memo.val),
                                            <<>>, 0, nonce))
      [] OTHER -> Ok(NativeCall(EngineFn(data.kind), <<>>, <<>>, 0, nonce))

\* ----------------------------------------------------------- signer construction

\* An endpoint is a sequence of pieces of text; "mainnet" is the piece the
\* chain discriminator looks for.
TestnetUrl == <<"https://", "testnet", ".zklighter.elliot.ai">>
Urls ==
    {TestnetUrl,
     <<"https://", "mainnet", ".zklighter.elliot.ai">>,
     <<"https://", "proxy.local/", "mainnet">>,
     <<"https://", "testnet", "NUL">>}

\* api_key_private as configured: absent, bare, 0x-prefixed, or holding a
\* zero byte.
ApiKeys == {None, Some(<<"k">>), Some(<<"0x", "k">>), Some(<<"k", "NUL">>)}
ApiKeyIndexes == {None, Some(3)}
AccountIndexes == {None, Some(2)}

EthKeys == {"k1"}
\* eth_private_key as configured: absent, a key, or text that is no key.
EthPrivateKeys == {None, Some("bad")} \cup {Some(k) : k \in EthKeys}

LighterConfig(base_url, account_index, eth_private_key, api_key_index, api_key_private) ==
    [base_url |-> base_url, account_index |-> account_index,
     eth_private_key |-> eth_private_key, api_key_index |-> api_key_index,
     api_key_private |-> api_key_private]

Configs ==
    {LighterConfig(u, a, e, i, k) :
        u \in Urls, a \in AccountIndexes, e \in EthPrivateKeys,
        i \in ApiKeyIndexes, k \in ApiKeys}

FFISigner(url, private_key, chain_id, api_key_index, account_index) ==
    [url |-> url, private_key |-> private_key, chain_id |-> chain_id,
     api_key_index |-> api_key_index, account_index |-> account_index]

\* str::contains
contains(s, pat) == \E i \in DOMAIN s : s[i] = pat

\* str::trim_start_matches: the prefix is removed as often as it occurs.
RECURSIVE trim_start_matches(_, _)
trim_start_matches(s, pat) ==
    IF s # <<>> /\ s[1] = pat THEN trim_start_matches(Tail(s), pat) ELSE s

\* The discriminators the wrong way round.
chain_id_swapped(url) == IF contains(url, "mainnet") THEN 300 ELSE 304

\* let chain_id = if url.contains("mainnet") { 304 } else { 300 };
chain_id(url) == IF contains(url, "mainnet") THEN 304 ELSE 300

\* An identity that is not the signer's.
identity_args_default(signer) == [api_key_index |-> 0, account_index |-> 0]

\* The (self.api_key_index, self.account_index) every foreign call ends with.
identity_args(signer) ==
    [api_key_index |-> signer.api_key_index, account_index |-> signer.account_index]

\* A bare char pointer returned by the engine.
CharPtr(p) == [shape |-> "ptr", p |-> p]
ClientResults == OptPtrs(EngineStrings)

\* The error string of CreateClient and CheckClient: null is success, anything
\* else is decoded, freed and returned as the error.
error_or_unit(result) ==
    IF ~is_null(result)
    THEN [ret |-> Err(Signing(to_string_lossy(result.s))), frees |-> <<"res">>]
    ELSE [ret |-> Ok(<<>>), frees |-> <<>>]

\* FFISigner::create_client, given what CreateClient returns if called.
create_client(signer, result) ==
    LET c_url == CString_new(signer.url)
        c_key == CString_new(signer.private_key)
    IN  IF c_url.tag = "Err"
        THEN [ret |-> Err(Signing(<<"Invalid URL">>)), frees |-> <<>>, calls |-> <<>>]
        ELSE IF c_key.tag = "Err"
        THEN [ret |-> Err(Signing(<<"Invalid key">>)), frees |-> <<>>, calls |-> <<>>]
        ELSE [ret |-> error_or_unit(result).ret,
              frees |-> error_or_unit(result).frees,
              calls |-> <<[fn |-> "CreateClient", url |-> as_ptr(c_url.val),
                           key |-> as_ptr(c_key.val), chain_id |-> signer.chain_id,
                           id |-> identity_args(signer)]>>]

\* FFISigner::new
FFISigner_new(url, private_key, api_key_index, account_index, result) ==
    LET clean_key == trim_start_matches(private_key, "0x")
        signer == FFISigner(url, clean_key, chain_id(url), api_key_index, account_index)
        client == create_client(signer, result)
    IN  [ret |-> IF client.ret.tag = "Err" THEN client.ret ELSE Ok(signer),
         frees |-> client.frees, calls |-> client.calls]

NotBuilt(e) == [ret |-> Err(e), frees |-> <<>>, calls |-> <<>>]

\* Missing indexes replaced by zero.
FFISigner_try_from_defaulting(cfg, result) ==
    IF ~cfg.api_key_private.some
    THEN NotBuilt(Generic(<<"API Private Key is not initialized">>))
    ELSE FFISigner_new(cfg.base_url, cfg.api_key_private.v,
                       IF cfg.api_key_index.some THEN cfg.api_key_index.v ELSE 0,
                       IF cfg.account_index.some THEN cfg.account_index.v ELSE 0,
                       result)

\* impl TryFrom<&LighterConfig> for FFISigner
FFISigner_try_from(cfg, result) ==
    IF ~cfg.api_key_private.some
    THEN NotBuilt(Generic(<<"API Private Key is not initialized">>))
    ELSE IF ~cfg.api_key_index.some
    THEN NotBuilt(Generic(<<"API Key Index is not initialized">>))
    ELSE IF ~cfg.account_index.some
    THEN NotBuilt(Generic(<<"Account Index is not initialized">>))
    ELSE FFISigner_new(cfg.base_url, cfg.api_key_private.v, cfg.api_key_index.v,
                       cfg.account_index.v, result)

\* impl TryFrom<&LighterConfig> for PrivateKeySigner
PrivateKeySigner_try_from(cfg) ==
    IF ~cfg.eth_private_key.some THEN Err(Config(<<"eth_private_key is empty">>))
    ELSE IF cfg.eth_private_key.v \notin EthKeys THEN Err(Signing(<<"invalid key">>))
    ELSE Ok(cfg.eth_private_key.v)

\* impl TryFrom<&LighterConfig> for Signer: the FFISigner first, then the
\* secondary key if one is configured.
Signer_try_from(cfg, result) ==
    LET built == FFISigner_try_from(cfg, result)
    IN  IF built.ret.tag = "Err" THEN built
        ELSE IF cfg.eth_private_key.some
        THEN LET key == PrivateKeySigner_try_from(cfg)
             IN  [ret |-> IF key.tag = "Err" THEN key
                          ELSE Ok([ffi |-> built.ret.val, eth |-> Some(key.val)]),
                  frees |-> built.frees, calls |-> built.calls]
        ELSE [ret |-> Ok([ffi |-> built.ret.val, eth |-> None]),
              frees |-> built.frees, calls |-> built.calls]

\* ---------------------------------------------------------------- signer facade

\* The digest of the bare message, without the EIP-191 prefix.
hash_message_unprefixed(message) == message

eip191_hash_message(message) == <<"eip191">> \o message

\* A sign_message that hands back an empty signature when no key is set.
sign_message_without_key(signer_eth, message, signOk) ==
    IF ~signer_eth.some THEN Ok(<<"0x">>)
    ELSE IF ~signOk THEN Err(Signing(<<"signature error">>))
    ELSE Ok(<<"0x", "sig", signer_eth.v>> \o eip191_hash_message(message))

\* Signer::sign_message. signOk is whether sign_hash_sync succeeds.
sign_message(signer_eth, message, signOk) ==
    LET hash == eip191_hash_message(message)
    IN  IF ~signer_eth.some THEN Err(Signing(<<"eth_private_key is not set">>))
        ELSE IF ~signOk THEN Err(Signing(<<"signature error">>))
        ELSE Ok(<<"0x", "sig", signer_eth.v>> \o hash)

\* The address of a secondary key, as PrivateKeySigner::address gives it.
address(key) == <<"address", key>>

\* Signature::from_str(signature) followed by recover_address_from_msg(message),
\* as the tests verify a signature: the text must be 0x and a signature, and
\* the signer recovered is the key's only if the signature is over the
\* EIP-191 digest of message.
recover_address_from_msg(signature, message) ==
    LET digest == <<"eip191">> \o message
    IN  IF Len(signature) < 3 \/ signature[1] # "0x" \/ signature[2] # "sig"
        THEN Err(<<"invalid signature">>)
        ELSE IF SubSeq(signature, 4, Len(signature)) = digest
        THEN Ok(address(signature[3]))
        ELSE Ok(address("nobody"))

TxInfo(data, payload) == [data |-> data, payload |-> payload]
TxInfoData(message, signature) == [message |-> message, signature |-> signature]

\* Signer::sign_tx_data after self.ffi.get_tx_data returned tx_body.
sign_tx_data(tx_body, signer_eth, signOk) ==
    IF tx_body.tag = "Err" THEN tx_body
    ELSE LET parsed == from_str(tx_body.val)
         IN  IF parsed.tag = "Err" THEN Panic
             ELSE LET tx_json == parsed.val
                      msg == index_as_str(tx_json, "MessageToSign")
                  IN  IF msg.some
                      THEN LET sig == sign_message(signer_eth, msg.v, signOk)
                           IN  IF sig.tag = "Err" THEN sig
                               ELSE Ok(TxInfo(
                                   Some(TxInfoData(msg.v, sig.val)),
                                   to_string(ValueObject(
                                       insert(remove(tx_json.map, "MessageToSign"),
                                              "L1Sig", JString(sig.val))))))
                      ELSE Ok(TxInfo(None, to_string(tx_json)))

\* A get_tx_data that dispatches the nonce after the one it was given.
get_tx_data_next_nonce(data, nonce, result) ==
    LET m == marshal(data, nonce + 1)
    IN  IF m.tag = "Err" THEN [ret |-> m, frees |-> <<>>, calls |-> <<>>]
        ELSE LET parsed == parse_signed_tx_response(result)
             IN  [ret |-> parsed.ret, frees |-> parsed.frees,
                  calls |-> <<[fn |-> m.val.fn, str |-> m.val.str,
                               list |-> m.val.list, len |-> m.val.len,
                               nonce |-> m.val.nonce, id |-> identity_args(ffi.v)]>>]

\* A get_tx_data that calls the engine a second time when the first call
\* reports an error.
get_tx_data_retrying(data, nonce, result) ==
    LET m == marshal(data, nonce)
    IN  IF m.tag = "Err" THEN [ret |-> m, frees |-> <<>>, calls |-> <<>>]
        ELSE LET parsed == parse_signed_tx_response(result)
                 c == [fn |-> m.val.fn, str |-> m.val.str,
                       list |-> m.val.list, len |-> m.val.len,
                       nonce |-> m.val.nonce, id |-> identity_args(ffi.v)]
             IN  [ret |-> parsed.ret, frees |-> parsed.frees,
                  calls |-> IF parsed.ret.tag = "Err" THEN <<c, c>> ELSE <<c>>]

\* FFISigner::get_tx_data, given the result the engine returns if called:
\* what it returns, what it frees and the native calls it makes.
get_tx_data(data, nonce, result) ==
    LET m == marshal(data, nonce)
    IN  IF m.tag = "Err" THEN [ret |-> m, frees |-> <<>>, calls |-> <<>>]
        ELSE LET parsed == parse_signed_tx_response(result)
             IN  [ret |-> parsed.ret, frees |-> parsed.frees,
                  calls |-> <<[fn |-> m.val.fn, str |-> m.val.str,
                               list |-> m.val.list, len |-> m.val.len,
                               nonce |-> m.val.nonce, id |-> identity_args(ffi.v)]>>]

\* ------------------------------------------------------------ token issuance

\* The clock counts minutes; Duration::minutes(10).
DefaultTtl == 10

\* The expiration_timestamp a caller may pass.
Expirations == {None, Some(2)}

AuthToken(token, expiration) == [token |-> token, expiration |-> expiration]

\* The comparison of is_expired turned around.
is_expired_inverted(tok) == now < tok.expiration

\* AuthToken::is_expired
is_expired(tok) == now >= tok.expiration

\* The caller's deadline ignored.
always_default(d) == now + DefaultTtl

\* deadline.unwrap_or(now + 10 minutes)
unwrap_or_default(d) == IF d.some THEN d.v ELSE now + DefaultTtl

\* What CreateAuthToken may return: a token, an error, or neither.
TokenResults ==
    {StrOrErr(Ptr(s), Null) : s \in EngineStrings}
        \cup {StrOrErr(Null, Ptr(<<"e">>)), StrOrErr(Null, Null)}

\* ------------------------------------------------------------- initial states

Threads == 1..NumThreads
NoThread == 0
NoCall == [active |-> FALSE]
Call(data, nonce) == [active |-> TRUE, op |-> "sign", data |-> data, nonce |-> nonce]
NoToken == [token |-> <<>>, expiration |-> 0]

SignIdle ==
    /\ call = NoCall
    /\ res = NoResult
    /\ ret = NoRet
    /\ frees = <<>>
    /\ native_calls = <<>>

\* FFISigner::new: the cache starts empty and nobody holds the lock.
AuthIdle ==
    /\ auth_token = None
    /\ readers = {}
    /\ writer = NoThread
    /\ now = 0
    /\ tpc = [t \in Threads |-> "idle"]
    /\ targ = [t \in Threads |-> None]
    /\ new_token = [t \in Threads |-> NoToken]
    /\ deadline = [t \in Threads |-> 0]
    /\ eres = [t \in Threads |-> NoResult]
    /\ tret = [t \in Threads |-> NoRet]
    /\ refreshes = 0
    /\ issued = {}
    /\ entry = [t \in Threads |-> None]
    /\ dirty = [t \in Threads |-> FALSE]

\* NonceManager::new: where the local counter starts.
NonceSeed == 0

\* No accessor of the ApiInterface has been called.
NoAccess == [name |-> "none", ret |-> NoRet]

\* A client nobody has called yet.
ClientIdle ==
    /\ npc = [t \in Threads |-> "idle"]
    /\ nret = [t \in Threads |-> NoRet]
    /\ handed = <<>>
    /\ ticket = [t \in Threads |-> 0]
    /\ tickets = 0
    /\ accessed = NoAccess
    /\ queries = <<>>

\* A configuration Signer::try_from accepts, with the secondary key or not.
SignerConfig(eth_private_key) ==
    LighterConfig(TestnetUrl, Some(2), eth_private_key, Some(3), Some(<<"0x", "k">>))

\* The Signer built from cfg when CreateClient reports no error.
Built(cfg) ==
    /\ config = cfg
    /\ ffi = Some(Signer_try_from(cfg, Null).ret.val.ffi)
    /\ eth = Signer_try_from(cfg, Null).ret.val.eth

\* Signer::try_from has returned the Signer; eth is Some exactly when
\* eth_private_key is configured.
Init ==
    /\ \E e \in {None} \cup {Some(k) : k \in EthKeys} : Built(SignerConfig(e))
    /\ pc = "idle"
    /\ SignIdle
    /\ AuthIdle
    /\ ClientIdle
    /\ nonce_manager = Some(NonceSeed)
    /\ apis = {}

\* --------------------------------------------------------------- sign_* calls

\* One sign_* call, from the caller's TxData and nonce to the returned value.
sign(data, nonce) ==
    /\ pc = "idle"
    /\ \E result \in SignedTxResponses, signOk \in BOOLEAN :
         LET out == get_tx_data(data, nonce, result)
         IN  /\ call' = Call(data, nonce)
             /\ res' = IF out.calls = <<>> THEN NoResult ELSE result
             /\ frees' = out.frees
             /\ native_calls' = out.calls
             /\ ret' = sign_tx_data(out.ret, eth, signOk)
    /\ pc' = "done"
    /\ UNCHANGED <<signerVars, authVars, clientVars>>

\* The caller takes the value; the signer serves the next call.
returned ==
    /\ pc = "done"
    /\ pc' = "idle"
    /\ call' = NoCall
    /\ res' = NoResult
    /\ ret' = NoRet
    /\ frees' = <<>>
    /\ native_calls' = <<>>
    /\ UNCHANGED <<signerVars, authVars, clientVars>>

\* FFISigner::check_client
check_client ==
    /\ pc = "idle"
    /\ \E result \in ClientResults :
         /\ call' = [active |-> TRUE, op |-> "check_client"]
         /\ res' = CharPtr(result)
         /\ native_calls' = <<[fn |-> "CheckClient", id |-> identity_args(ffi.v)]>>
         /\ ret' = error_or_unit(result).ret
         /\ frees' = error_or_unit(result).frees
    /\ pc' = "done"
    /\ UNCHANGED <<signerVars, authVars, clientVars>>

\* FFISigner::create_auth_token_with_expiry called on its own, from the
\* deadline to the AuthToken or the error it returns.
create_auth_token(d) ==
    /\ pc = "idle"
    /\ \E result \in TokenResults :
         LET token == parse_result(result)
         IN  /\ call' = [active |-> TRUE, op |-> "create_auth_token", deadline |-> d]
             /\ res' = result
             /\ native_calls' = <<[fn |-> "CreateAuthToken",
                                   deadline |-> unwrap_or_default(d),
                                   id |-> identity_args(ffi.v)]>>
             /\ frees' = token.frees
             /\ ret' = IF token.ret.tag = "Err" THEN token.ret
                       ELSE Ok(AuthToken(token.ret.val, unwrap_or_default(d)))
    /\ pc' = "done"
    /\ UNCHANGED <<signerVars, authVars, clientVars>>

Next ==
    \/ \E data \in TxDatas, nonce \in Nonces : sign(data, nonce)
    \/ check_client
    \/ \E d \in Expirations : create_auth_token(d)
    \/ returned

Spec == Init /\ [][Next]_vars

\* ------------------------------------------------- the parsers on every result

ParseInit ==
    /\ Built(SignerConfig(None))
    /\ pc = "result"
    /\ call = NoCall
    /\ res \in SignedTxResponses \cup StrOrErrs \cup ApiKeyResponses
                 \cup {CharPtr(p) : p \in ClientResults}
    /\ ret = NoRet
    /\ frees = <<>>
    /\ native_calls = <<>>
    /\ AuthIdle
    /\ ClientIdle
    /\ nonce_manager = Some(NonceSeed)
    /\ apis = {}

apply_parse_signed_tx_response ==
    /\ pc = "result"
    /\ res.shape = "SignedTxResponse"
    /\ ret' = parse_signed_tx_response(res).ret
    /\ frees' = parse_signed_tx_response(res).frees
    /\ pc' = "parsed"
    /\ UNCHANGED <<signerVars, call, res, native_calls, authVars, clientVars>>

apply_parse_result ==
    /\ pc = "result"
    /\ res.shape = "StrOrErr"
    /\ ret' = parse_result(res).ret
    /\ frees' = parse_result(res).frees
    /\ pc' = "parsed"
    /\ UNCHANGED <<signerVars, call, res, native_calls, authVars, clientVars>>

apply_generate_api_key ==
    /\ pc = "result"
    /\ res.shape = "ApiKeyResponse"
    /\ ret' = generate_api_key(res).ret
    /\ frees' = generate_api_key(res).frees
    /\ pc' = "generated"
    /\ UNCHANGED <<signerVars, call, res, native_calls, authVars, clientVars>>

\* What create_client and check_client do with the pointer the engine returned.
apply_error_or_unit ==
    /\ pc = "result"
    /\ res.shape = "ptr"
    /\ ret' = error_or_unit(res.p).ret
    /\ frees' = error_or_unit(res.p).frees
    /\ pc' = "checked"
    /\ UNCHANGED <<signerVars, call, res, native_calls, authVars, clientVars>>

ParseNext ==
    \/ apply_parse_signed_tx_response
    \/ apply_parse_result
    \/ apply_generate_api_key
    \/ apply_error_or_unit

ParseSpec == ParseInit /\ [][ParseNext]_vars

\* ------------------------------------------------- every configuration, built

NewInit ==
    /\ config \in Configs
    /\ ffi = None
    /\ eth = None
    /\ pc = "config"
    /\ SignIdle
    /\ AuthIdle
    /\ ClientIdle
    /\ nonce_manager = Some(NonceSeed)
    /\ apis = {}

\* Signer::try_from(&config), whatever CreateClient returns if it is called.
try_from ==
    /\ pc = "config"
    /\ \E result \in ClientResults :
         LET built == Signer_try_from(config, result)
         IN  /\ ret' = built.ret
             /\ ffi' = IF built.ret.tag = "Ok" THEN Some(built.ret.val.ffi) ELSE None
             /\ eth' = IF built.ret.tag = "Ok" THEN built.ret.val.eth ELSE None
             /\ res' = IF built.calls = <<>> THEN NoResult ELSE CharPtr(result)
             /\ frees' = built.frees
             /\ native_calls' = built.calls
    /\ pc' = "built"
    /\ UNCHANGED <<config, call, authVars, clientVars>>

NewNext == try_from

NewSpec == NewInit /\ [][NewNext]_vars

\* ------------------------------------------------------------ auth token cache

\* Threads inside get_auth_token that have not reached the engine yet.
Pending == {t \in Threads : tpc[t] \in {"read", "check", "create"}}

\* A thread calls get_auth_token(expiration_timestamp).
get_auth_token(t, expiration_timestamp) ==
    /\ tpc[t] = "idle"
    /\ refreshes + Cardinality(Pending) < MaxRefresh
    /\ tpc' = [tpc EXCEPT ![t] = "read"]
    /\ targ' = [targ EXCEPT ![t] = expiration_timestamp]
    /\ entry' = [entry EXCEPT ![t] = auth_token]
    /\ dirty' = [dirty EXCEPT ![t] = FALSE]
    /\ UNCHANGED <<auth_token, readers, writer, now, new_token, deadline, eres,
                   tret, refreshes, issued, signVars, clientVars>>

\* self.auth_token.read(): granted while no writer holds the lock.
read(t) ==
    /\ tpc[t] = "read"
    /\ writer = NoThread
    /\ readers' = readers \cup {t}
    /\ tpc' = [tpc EXCEPT ![t] = "check"]
    /\ UNCHANGED <<auth_token, writer, now, targ, new_token, deadline, eres, tret,
                   refreshes, issued, entry, dirty, signVars, clientVars>>

\* The read guard living on past the block when the token is not returned.
check_keeps_guard(t) ==
    /\ tpc[t] = "check"
    /\ IF auth_token.some /\ ~is_expired(auth_token.v)
       THEN /\ tret' = [tret EXCEPT ![t] = Ok(auth_token.v.token)]
            /\ tpc' = [tpc EXCEPT ![t] = "done"]
            /\ readers' = readers \ {t}
       ELSE /\ tret' = tret
            /\ tpc' = [tpc EXCEPT ![t] = "create"]
            /\ readers' = readers
    /\ UNCHANGED <<auth_token, writer, now, targ, new_token, deadline, eres,
                   refreshes, issued, entry, dirty, signVars, clientVars>>

\* A check that refreshes whether the cached token has expired or not.
check_always_refreshes(t) ==
    /\ tpc[t] = "check"
    /\ readers' = readers \ {t}
    /\ tret' = tret
    /\ tpc' = [tpc EXCEPT ![t] = "create"]
    /\ UNCHANGED <<auth_token, writer, now, targ, new_token, deadline, eres,
                   refreshes, issued, entry, dirty, signVars, clientVars>>

\* The block under the read guard: return the cached token if it is still
\* valid; the guard is dropped either way.
check(t) ==
    /\ tpc[t] = "check"
    /\ readers' = readers \ {t}
    /\ IF auth_token.some /\ ~is_expired(auth_token.v)
       THEN /\ tret' = [tret EXCEPT ![t] = Ok(auth_token.v.token)]
            /\ tpc' = [tpc EXCEPT ![t] = "done"]
       ELSE /\ tret' = tret
            /\ tpc' = [tpc EXCEPT ![t] = "create"]
    /\ UNCHANGED <<auth_token, writer, now, targ, new_token, deadline, eres,
                   refreshes, issued, entry, dirty, signVars, clientVars>>

\* create_auth_token_with_expiry up to the foreign call CreateAuthToken.
create_auth_token_with_expiry(t) ==
    /\ tpc[t] = "create"
    /\ deadline' = [deadline EXCEPT ![t] = unwrap_or_default(targ[t])]
    /\ refreshes' = refreshes + 1
    /\ tpc' = [tpc EXCEPT ![t] = "engine"]
    /\ UNCHANGED <<auth_token, readers, writer, now, targ, new_token, eres, tret,
                   issued, entry, dirty, signVars, clientVars>>

\* A failed refresh that empties the cache.
CreateAuthToken_returns_clearing(t, result) ==
    /\ tpc[t] = "engine"
    /\ eres' = [eres EXCEPT ![t] = result]
    /\ LET token == parse_result(result).ret
       IN  IF token.tag = "Err"
           THEN /\ tret' = [tret EXCEPT ![t] = token]
                /\ tpc' = [tpc EXCEPT ![t] = "done"]
                /\ auth_token' = None
                /\ UNCHANGED <<new_token, issued>>
           ELSE /\ new_token' = [new_token EXCEPT ![t] = AuthToken(token.val, deadline[t])]
                /\ issued' = issued \cup {AuthToken(token.val, deadline[t])}
                /\ tpc' = [tpc EXCEPT ![t] = "write"]
                /\ UNCHANGED <<tret, auth_token>>
    /\ UNCHANGED <<readers, writer, now, targ, deadline, refreshes,
                   entry, dirty, signVars, clientVars>>

\* CreateAuthToken returns; parse_result decides between the error, returned
\* by `?`, and the AuthToken handed back to get_auth_token.
CreateAuthToken_returns(t, result) ==
    /\ tpc[t] = "engine"
    /\ eres' = [eres EXCEPT ![t] = result]
    /\ LET token == parse_result(result).ret
       IN  IF token.tag = "Err"
           THEN /\ tret' = [tret EXCEPT ![t] = token]
                /\ tpc' = [tpc EXCEPT ![t] = "done"]
                /\ UNCHANGED <<new_token, issued>>
           ELSE /\ new_token' = [new_token EXCEPT ![t] = AuthToken(token.val, deadline[t])]
                /\ issued' = issued \cup {AuthToken(token.val, deadline[t])}
                /\ tpc' = [tpc EXCEPT ![t] = "write"]
                /\ tret' = tret
    /\ UNCHANGED <<auth_token, readers, writer, now, targ, deadline, refreshes,
                   entry, dirty, signVars, clientVars>>

\* self.auth_token.write(): granted while nobody holds the lock.
write(t) ==
    /\ tpc[t] = "write"
    /\ writer = NoThread
    /\ readers = {}
    /\ writer' = t
    /\ tpc' = [tpc EXCEPT ![t] = "store"]
    /\ UNCHANGED <<auth_token, readers, now, targ, new_token, deadline, eres, tret,
                   refreshes, issued, entry, dirty, signVars, clientVars>>

\* A store that replaces the token of a cached entry and keeps its expiration.
store_token_only(t) ==
    /\ tpc[t] = "store"
    /\ auth_token' = IF auth_token.some
                     THEN Some(AuthToken(new_token[t].token, auth_token.v.expiration))
                     ELSE Some(new_token[t])
    /\ tret' = [tret EXCEPT ![t] = Ok(new_token[t].token)]
    /\ writer' = NoThread
    /\ tpc' = [tpc EXCEPT ![t] = "done"]
    /\ dirty' = [u \in Threads |-> IF u = t THEN dirty[u] ELSE TRUE]
    /\ UNCHANGED <<readers, now, targ, new_token, deadline, eres, refreshes,
                   issued, entry, signVars, clientVars>>

\* A store whose write guard is never dropped.
store_keeps_guard(t) ==
    /\ tpc[t] = "store"
    /\ auth_token' = Some(new_token[t])
    /\ tret' = [tret EXCEPT ![t] = Ok(new_token[t].token)]
    /\ writer' = writer
    /\ tpc' = [tpc EXCEPT ![t] = "done"]
    /\ dirty' = [u \in Threads |-> IF u = t THEN dirty[u] ELSE TRUE]
    /\ UNCHANGED <<readers, now, targ, new_token, deadline, eres, refreshes,
                   issued, entry, signVars, clientVars>>

\* *guard = Some(new_token); Ok(token_str), the write guard dropped on return.
store(t) ==
    /\ tpc[t] = "store"
    /\ auth_token' = Some(new_token[t])
    /\ tret' = [tret EXCEPT ![t] = Ok(new_token[t].token)]
    /\ writer' = NoThread
    /\ tpc' = [tpc EXCEPT ![t] = "done"]
    /\ dirty' = [u \in Threads |-> IF u = t THEN dirty[u] ELSE TRUE]
    /\ UNCHANGED <<readers, now, targ, new_token, deadline, eres, refreshes,
                   issued, entry, signVars, clientVars>>

\* The caller takes the value; the thread's locals are gone.
get_auth_token_returned(t) ==
    /\ tpc[t] = "done"
    /\ tpc' = [tpc EXCEPT ![t] = "idle"]
    /\ targ' = [targ EXCEPT ![t] = None]
    /\ new_token' = [new_token EXCEPT ![t] = NoToken]
    /\ deadline' = [deadline EXCEPT ![t] = 0]
    /\ eres' = [eres EXCEPT ![t] = NoResult]
    /\ tret' = [tret EXCEPT ![t] = NoRet]
    /\ entry' = [entry EXCEPT ![t] = None]
    /\ dirty' = [dirty EXCEPT ![t] = FALSE]
    /\ UNCHANGED <<auth_token, readers, writer, now, refreshes, issued, signVars, clientVars>>

\* A minute passes.
tick ==
    /\ now < MaxNow
    /\ now' = now + 1
    /\ UNCHANGED <<auth_token, readers, writer, tpc, targ, new_token, deadline, eres,
                   tret, refreshes, issued, entry, dirty, signVars, clientVars>>

AuthInit ==
    /\ Built(SignerConfig(None))
    /\ pc = "idle"
    /\ SignIdle
    /\ AuthIdle
    /\ ClientIdle
    /\ nonce_manager = Some(NonceSeed)
    /\ apis = {}

AuthNext ==
    \/ \E t \in Threads, d \in Expirations : get_auth_token(t, d)
    \/ \E t \in Threads : read(t)
    \/ \E t \in Threads : check(t)
    \/ \E t \in Threads : create_auth_token_with_expiry(t)
    \/ \E t \in Threads, result \in TokenResults : CreateAuthToken_returns(t, result)
    \/ \E t \in Threads : write(t)
    \/ \E t \in Threads : store(t)
    \/ \E t \in Threads : get_auth_token_returned(t)
    \/ tick

AuthSpec == AuthInit /\ [][AuthNext]_vars

\* Any step of thread t inside get_auth_token: taking a lock, running on, or
\* the engine call returning.
Runs(t) ==
    \/ read(t)
    \/ check(t)
    \/ create_auth_token_with_expiry(t)
    \/ \E result \in TokenResults : CreateAuthToken_returns(t, result)
    \/ write(t)
    \/ store(t)

\* The callers' steps at one instant of the clock: whether a call ends does
\* not depend on the time at which its steps are taken.
CallersNext ==
    \/ \E t \in Threads, d \in Expirations : get_auth_token(t, d)
    \/ \E t \in Threads : read(t)
    \/ \E t \in Threads : check(t)
    \/ \E t \in Threads : create_auth_token_with_expiry(t)
    \/ \E t \in Threads, result \in TokenResults : CreateAuthToken_returns(t, result)
    \/ \E t \in Threads : write(t)
    \/ \E t \in Threads : store(t)
    \/ \E t \in Threads : get_auth_token_returned(t)

\* Threads are scheduled fairly and the engine call returns: a thread inside
\* get_auth_token that can take its next step again and again takes it at
\* last. For a thread waiting for the lock this is the lock being granted to
\* it at last, however often other callers take it in between.
AuthFairSpec ==
    /\ AuthInit
    /\ [][CallersNext]_vars
    /\ \A t \in Threads : SF_vars(Runs(t))

\* ------------------------------------------- one caller, signing and tokens

\* The key rotations among the TxData values.
KeyRotations == {data \in TxDatas : data.kind = "ChangePubKey"}

\* One get_auth_token call with no other caller inside it, from the argument
\* to the returned value: the cached token if it has not expired, else one
\* CreateAuthToken call whose token is stored and returned, or whose error is
\* returned.
get_auth_token_call(expiration_timestamp) ==
    /\ pc = "idle"
    /\ call' = [active |-> TRUE, op |-> "get_auth_token",
                deadline |-> expiration_timestamp]
    /\ IF auth_token.some /\ ~is_expired(auth_token.v)
       THEN /\ res' = NoResult
            /\ native_calls' = <<>>
            /\ frees' = <<>>
            /\ ret' = Ok(auth_token.v.token)
            /\ auth_token' = auth_token
       ELSE \E result \in TokenResults :
                LET token == parse_result(result)
                    d == unwrap_or_default(expiration_timestamp)
                IN  /\ res' = result
                    /\ native_calls' = <<[fn |-> "CreateAuthToken", deadline |-> d,
                                          id |-> identity_args(ffi.v)]>>
                    /\ frees' = token.frees
                    /\ ret' = token.ret
                    /\ auth_token' = IF token.ret.tag = "Err" THEN auth_token
                                     ELSE Some(AuthToken(token.ret.val, d))
    /\ pc' = "done"
    /\ UNCHANGED <<signerVars, readers, writer, now, tpc, targ, new_token,
                   deadline, eres, tret, refreshes, issued, entry, dirty,
                   clientVars>>

SerialNext ==
    \/ \E data \in KeyRotations, nonce \in Nonces : sign(data, nonce)
    \/ \E d \in Expirations : get_auth_token_call(d)
    \/ returned
    \/ tick

SerialSpec == Init /\ [][SerialNext]_vars

\* ------------------------------------------------------------------- nonces

\* What the transaction API's next_nonce may answer: a NextNonce or a
\* transport error.
Http(msg) == [variant |-> "Http", msg |-> msg]
NextNonceResults == {Ok([nonce |-> 7]), Err(Http(<<"transport">>))}

\* NonceManager::generate: the counter's value is handed out and the counter
\* incremented, in one atomic operation.
NonceManager_generate(counter) == [ret |-> Ok(counter), counter |-> counter + 1]

\* The fields of struct ApiInterface, and those that have an accessor.
ApiNames ==
    {"account", "announcement", "block", "bridge", "candlestick", "funding",
     "info", "notification", "order", "referral", "root", "transaction"}
Accessors == ApiNames \ {"bridge"}

\* The message of an accessor whose field is None.
NotInitialized(name) ==
    CASE name = "account" -> <<"Account API not initialized">>
      [] name = "announcement" -> <<"Announcement API not initialized">>
      [] name = "block" -> <<"Block API not initialized">>
      [] name = "candlestick" -> <<"Candlestick API not initialized">>
      [] name = "funding" -> <<"Funding API not initialized">>
      [] name = "info" -> <<"Info API not initialized">>
      [] name = "notification" -> <<"Notification API not initialized">>
      [] name = "order" -> <<"Order API not initialized">>
      [] name = "referral" -> <<"Referral API not initialized">>
      [] name = "root" -> <<"Root API not initialized">>
      [] name = "transaction" -> <<"Transaction API not initialized">>

\* An accessor that hands out the API whether its field is set or not.
accessor_unchecked(fields, name) == Ok([api |-> name])

\* ApiInterface::account, ..., ApiInterface::transaction on an interface
\* whose fields in `fields` are Some: self.<name>.as_ref().ok_or_else(..).
accessor(fields, name) ==
    IF name \in fields THEN Ok([api |-> name])
    ELSE Err(Generic(NotInitialized(name)))

\* The with_* calls made on a builder before build.
Builders == {{}, {"transaction"}, {"account", "bridge", "order"}, ApiNames}

\* HttpClientBuilder::build for a builder with the flags in enabled set, when
\* every <X>Api::new succeeds; local_nonce is config.local_nonce.
HttpClientBuilder_build(cfg, local_nonce, enabled) ==
    IF ~cfg.account_index.some
    THEN Err(Generic(<<"acount_index is not set">>))
    ELSE IF ~cfg.api_key_index.some
    THEN Err(Generic(<<"api_key_index is not set">>))
    ELSE Ok([account_index |-> cfg.account_index.v,
             api_key_index |-> cfg.api_key_index.v,
             apis |-> enabled,
             nonce_manager |-> IF local_nonce THEN Some(NonceSeed) ELSE None])

\* A get_nonce that asks the transaction API whenever the client has one,
\* and uses the local counter only when it has none.
get_nonce_remote_if_possible(t) ==
    /\ npc[t] = "idle"
    /\ tickets < MaxCalls
    /\ tickets' = tickets + 1
    /\ ticket' = [ticket EXCEPT ![t] = tickets + 1]
    /\ IF nonce_manager.some /\ accessor(apis, "transaction").tag = "Err"
       THEN /\ npc' = [npc EXCEPT ![t] = "generate"]
            /\ nret' = nret
            /\ queries' = queries
       ELSE IF accessor(apis, "transaction").tag = "Err"
       THEN /\ npc' = [npc EXCEPT ![t] = "done"]
            /\ nret' = [nret EXCEPT ![t] = accessor(apis, "transaction")]
            /\ queries' = queries
       ELSE /\ npc' = [npc EXCEPT ![t] = "next_nonce"]
            /\ nret' = nret
            /\ queries' = Append(queries,
                   [ticket |-> tickets + 1,
                    account_index |-> config.account_index.v,
                    api_key_index |-> config.api_key_index.v])
    /\ UNCHANGED <<nonce_manager, apis, handed, accessed, signVars, authVars>>

\* A thread calls get_nonce: the local counter if there is one, else the
\* transaction API, whose accessor fails if the API is missing; with the API
\* at hand the query next_nonce(account_index, api_key_index) is sent, the
\* client's indexes being those of the configuration it was built from.
get_nonce(t) ==
    /\ npc[t] = "idle"
    /\ tickets < MaxCalls
    /\ tickets' = tickets + 1
    /\ ticket' = [ticket EXCEPT ![t] = tickets + 1]
    /\ IF nonce_manager.some
       THEN /\ npc' = [npc EXCEPT ![t] = "generate"]
            /\ nret' = nret
            /\ queries' = queries
       ELSE IF accessor(apis, "transaction").tag = "Err"
       THEN /\ npc' = [npc EXCEPT ![t] = "done"]
            /\ nret' = [nret EXCEPT ![t] = accessor(apis, "transaction")]
            /\ queries' = queries
       ELSE /\ npc' = [npc EXCEPT ![t] = "next_nonce"]
            /\ nret' = nret
            /\ queries' = Append(queries,
                   [ticket |-> tickets + 1,
                    account_index |-> config.account_index.v,
                    api_key_index |-> config.api_key_index.v])
    /\ UNCHANGED <<nonce_manager, apis, handed, accessed, signVars, authVars>>

\* The counter read without being advanced.
generate_peek(t) ==
    /\ npc[t] = "generate"
    /\ nret' = [nret EXCEPT ![t] = Ok(nonce_manager.v)]
    /\ handed' = Append(handed, nonce_manager.v)
    /\ npc' = [npc EXCEPT ![t] = "done"]
    /\ UNCHANGED <<nonce_manager, apis, ticket, tickets, accessed, queries,
                   signVars, authVars>>

\* nonce_manager.generate()
generate(t) ==
    /\ npc[t] = "generate"
    /\ LET g == NonceManager_generate(nonce_manager.v)
       IN  /\ nret' = [nret EXCEPT ![t] = g.ret]
           /\ nonce_manager' = Some(g.counter)
           /\ handed' = Append(handed, g.ret.val)
    /\ npc' = [npc EXCEPT ![t] = "done"]
    /\ UNCHANGED <<apis, ticket, tickets, accessed, queries, signVars, authVars>>

\* next_nonce(account_index, api_key_index).await.map(|v| v.nonce)
next_nonce_returns(t, r) ==
    /\ npc[t] = "next_nonce"
    /\ nret' = [nret EXCEPT ![t] = IF r.tag = "Ok" THEN Ok(r.val.nonce) ELSE r]
    /\ npc' = [npc EXCEPT ![t] = "done"]
    /\ UNCHANGED <<nonce_manager, apis, handed, ticket, tickets, accessed,
                   queries, signVars, authVars>>

\* The caller takes the nonce.
get_nonce_returned(t) ==
    /\ npc[t] = "done"
    /\ npc' = [npc EXCEPT ![t] = "idle"]
    /\ nret' = [nret EXCEPT ![t] = NoRet]
    /\ ticket' = [ticket EXCEPT ![t] = 0]
    /\ UNCHANGED <<nonce_manager, apis, handed, tickets, accessed, queries,
                   signVars, authVars>>

\* client.api().<name>(): an accessor of the ApiInterface is called.
api(name) ==
    /\ accessed' = [name |-> name, ret |-> accessor(apis, name)]
    /\ UNCHANGED <<nonce_manager, apis, npc, nret, handed, ticket, tickets,
                   queries, signVars, authVars>>

\* HttpClientBuilder::build has returned the client: local or remote nonce
\* mode, with the APIs the builder was asked for.
ClientInit ==
    /\ Built(SignerConfig(None))
    /\ pc = "idle"
    /\ SignIdle
    /\ AuthIdle
    /\ ClientIdle
    /\ \E local_nonce \in BOOLEAN, enabled \in Builders :
         LET client == HttpClientBuilder_build(config, local_nonce, enabled).val
         IN  /\ nonce_manager = client.nonce_manager
             /\ apis = client.apis

ClientNext ==
    \/ \E t \in Threads : get_nonce(t)
    \/ \E t \in Threads : generate(t)
    \/ \E t \in Threads, r \in NextNonceResults : next_nonce_returns(t, r)
    \/ \E t \in Threads : get_nonce_returned(t)
    \/ \E name \in Accessors : api(name)

ClientSpec == ClientInit /\ [][ClientNext]_vars

\* ===================================================================== claims

FreeCount(f) == Cardinality({i \in DOMAIN frees : frees[i] = f})
SignedFields == {"err", "txInfo", "txHash", "messageToSign"}

\* C1: after parse_signed_tx_response, on every exit path, each non-null
\* field of the SignedTxResponse has been freed exactly once (and no null
\* field was freed).
C1_EveryFieldFreedOnce ==
    (pc = "parsed" /\ res.shape = "SignedTxResponse") =>
        \A f \in SignedFields : FreeCount(f) = (IF is_null(res[f]) THEN 0 ELSE 1)

\* C2: every sign_* call ends with Ok(TxInfo) or Err(LighterError); it
\* never panics.
C2_OkOrErrNeverPanic ==
    pc = "done" => ret.tag \in {"Ok", "Err"}

\* The MessageToSign string of the payload the engine returned, if the engine
\* returned a payload that has one.
EngineMessage ==
    IF /\ res.shape = "SignedTxResponse"
       /\ is_null(res.err)
       /\ ~is_null(res.txInfo)
       /\ from_str(res.txInfo.s).tag = "Ok"
    THEN index_as_str(from_str(res.txInfo.s).val, "MessageToSign")
    ELSE None

\* C8: a payload with a MessageToSign string and no secondary key configured
\* makes the sign_* call fail with the Signing error for the missing key; no
\* TxInfo is returned.
C8_MissingKeyFails ==
    (pc = "done" /\ EngineMessage.some /\ ~eth.some) =>
        ret = Err(Signing(<<"eth_private_key is not set">>))

C8_Witness ==
    /\ pc = "done"
    /\ EngineMessage.some
    /\ ~eth.some
    /\ ret.tag = "Err"
    /\ "Nonce" \in DOMAIN from_str(res.txInfo.s).val.map

\* C9: with a MessageToSign string m in the payload and a secondary key
\* configured, a returned TxInfo has data = Some{message = m, signature = s}
\* with s starting with 0x, and its payload is the engine's object without
\* MessageToSign, with L1Sig = s, and every other member as the engine
\* wrote it. The call returns nothing else but the error of the signature
\* operation itself.
C9_SignatureSpliced ==
    (pc = "done" /\ EngineMessage.some /\ eth.some) =>
        \/ ret = Err(Signing(<<"signature error">>))
        \/ /\ ret.tag = "Ok"
           /\ LET engine == from_str(res.txInfo.s).val.map
                  info == ret.val
                  out == from_str(info.payload)
              IN  /\ info.data.some
                  /\ info.data.v.message = EngineMessage.v
                  /\ info.data.v.signature[1] = "0x"
                  /\ out.tag = "Ok"
                  /\ out.val.kind = "object"
                  /\ DOMAIN out.val.map =
                         (DOMAIN engine \ {"MessageToSign"}) \cup {"L1Sig"}
                  /\ out.val.map["L1Sig"] = JString(info.data.v.signature)
                  /\ \A k \in DOMAIN engine \ {"MessageToSign", "L1Sig"} :
                         out.val.map[k] = engine[k]

C9_Witness ==
    /\ pc = "done"
    /\ EngineMessage.some
    /\ eth.some
    /\ ret.tag = "Ok"
    /\ ret.val.data.some
    /\ "Nonce" \in DOMAIN from_str(res.txInfo.s).val.map

\* C10: a result whose err field is non-null makes either parser return
\* Err(Signing(text of err)), whatever the other fields hold.
C10_ErrorFieldWins ==
    (pc = "parsed" /\ ~is_null(res.err)) =>
        ret = Err(Signing(to_string_lossy(res.err.s)))

C10_Witness ==
    /\ pc = "parsed"
    /\ res.shape = "SignedTxResponse"
    /\ ~is_null(res.err)
    /\ ~is_null(res.txInfo)
    /\ ~is_null(res.txHash)
    /\ ~is_null(res.messageToSign)
    /\ ret.tag = "Err"

\* The cache holds a token that has not expired.
CacheValid == auth_token.some /\ now < auth_token.v.expiration

\* Thread t leaves position p in this step.
Leaves(t, p) == tpc[t] = p /\ tpc'[t] # p

\* C3: a caller that finds a cached token with now < expiration returns
\* exactly that token, whatever deadline it passed, without an engine token
\* call and without changing the cache.
C3_CachedTokenReturned ==
    [][\A t \in Threads :
        (Leaves(t, "check") /\ CacheValid) =>
            /\ tpc'[t] = "done"
            /\ tret'[t] = Ok(auth_token.v.token)
            /\ auth_token' = auth_token
            /\ refreshes' = refreshes
            /\ eres'[t] = NoResult]_vars

C3_Witness ==
    \E t \in Threads :
        /\ tpc[t] = "done"
        /\ targ[t].some
        /\ eres[t] = NoResult
        /\ auth_token.some
        /\ tret[t] = Ok(auth_token.v.token)

\* C4 as stated: when the engine token call of a get_auth_token call fails,
\* the cache is at that moment what it was when the call began, under any
\* interleaving.
C4_CacheAsBeforeCall ==
    [][\A t \in Threads :
        (Leaves(t, "engine") /\ tret'[t].tag = "Err") => auth_token' = entry[t]]_vars

\* C4 as amended: a failed refresh returns the engine's error and writes
\* nothing to the cache; unless another call stored a token meanwhile, the
\* cache is what it was when the call began.
C4_FailedRefreshWritesNothing ==
    \A t \in Threads :
        (tpc[t] = "done" /\ tret[t].tag = "Err") =>
            /\ tret[t] = parse_result(eres[t]).ret
            /\ dirty[t] \/ auth_token = entry[t]

C4_Witness ==
    \E t \in Threads :
        /\ tpc[t] = "done"
        /\ tret[t].tag = "Err"
        /\ entry[t].some
        /\ ~dirty[t]
        /\ auth_token = entry[t]

\* C5: a caller that finds the cache empty or expired makes an engine token
\* call with the caller's deadline, or now + 10 minutes if none was given;
\* on success the store leaves {engine's token, that deadline} in the cache
\* and the call returns that token.
C5_RefreshStoresTokenAndDeadline ==
    [][\A t \in Threads :
        /\ (Leaves(t, "check") /\ ~CacheValid) => tpc'[t] = "create"
        /\ Leaves(t, "create") =>
              /\ tpc'[t] = "engine"
              /\ refreshes' = refreshes + 1
              /\ deadline'[t] = (IF targ[t].some THEN targ[t].v ELSE now + DefaultTtl)
        /\ Leaves(t, "store") =>
              /\ is_null(eres[t].err)
              /\ ~is_null(eres[t].str_)
              /\ auth_token' =
                    Some(AuthToken(to_string_lossy(eres[t].str_.s), deadline[t]))
              /\ tret'[t] = Ok(to_string_lossy(eres[t].str_.s))
              /\ tpc'[t] = "done"]_vars

C5_Witness ==
    \E t \in Threads :
        /\ tpc[t] = "done"
        /\ targ[t].some
        /\ eres[t] # NoResult
        /\ tret[t].tag = "Ok"
        /\ entry[t].some
        /\ auth_token = Some(AuthToken(tret[t].val, targ[t].v))

\* C6: a thread holds the read guard only while it checks the cache and the
\* write guard only while it stores; from the end of the check to the end of
\* the engine token call it holds no lock on the cache; a writer excludes
\* readers, and a caller asking for the read guard gets it whatever other
\* readers hold, as long as no writer holds the lock.
C6_NoLockAcrossEngineCall ==
    /\ \A t \in Threads :
          /\ t \in readers => tpc[t] = "check"
          /\ writer = t => tpc[t] = "store"
          /\ tpc[t] \in {"create", "engine", "write"} => (t \notin readers /\ writer # t)
          /\ (tpc[t] = "read" /\ writer = NoThread) => ENABLED read(t)
    /\ writer # NoThread => readers = {}

C6_Witness ==
    \E t \in Threads, u \in Threads :
        /\ tpc[t] = "engine"
        /\ u \in readers

\* C7: the cache is None or a pair produced by one successful refresh call,
\* and each store leaves in the cache the pair of the thread that stores.
C7_CachePairNeverTorn ==
    /\ [](auth_token.some => auth_token.v \in issued)
    /\ [][\A t \in Threads : Leaves(t, "store") => auth_token' = Some(new_token[t])]_vars

C7_Witness ==
    \E t \in Threads, u \in Threads :
        /\ tpc[t] = "store"
        /\ tpc[u] = "done"
        /\ eres[u] # NoResult
        /\ entry[t] = entry[u]
        /\ auth_token = Some(new_token[u])
        /\ new_token[t].token # new_token[u].token
        /\ new_token[t].expiration # new_token[u].expiration

\* C11: a result whose err field is null and whose primary field (txInfo of
\* a SignedTxResponse, str of a StrOrErr) is null makes the parser return the
\* malformed-result error, "Null txInfo in result" or "Null result", and
\* never Ok, whatever the other fields hold.
C11_NullPrimaryIsMalformed ==
    (pc = "parsed" /\ is_null(res.err)) =>
        /\ (res.shape = "SignedTxResponse" /\ is_null(res.txInfo)) =>
               ret = Err(Signing(<<"Null txInfo in result">>))
        /\ (res.shape = "StrOrErr" /\ is_null(res.str_)) =>
               ret = Err(Signing(<<"Null result">>))

C11_Witness ==
    /\ pc = "parsed"
    /\ res.shape = "SignedTxResponse"
    /\ is_null(res.err)
    /\ is_null(res.txInfo)
    /\ ~is_null(res.txHash)
    /\ ~is_null(res.messageToSign)
    /\ ret.tag = "Err"

\* A sign_* call has returned.
SignDone == pc = "done" /\ call.op = "sign"

\* The TxData holds a field that fails its encoding precondition.
LocallyRejected(data) ==
    \/ /\ data.kind = "SignTransfer"
       /\ \E i \in DOMAIN data.memo : data.memo[i] \in {"xFF", "NUL"}
    \/ /\ data.kind = "ChangePubKey"
       /\ \E i \in DOMAIN data.new_pubk : data.new_pubk[i] = "NUL"

\* C12: a transfer memo that is not UTF-8 or holds a zero byte, or a new
\* public key holding a zero byte, makes the call fail with no native-engine
\* call made; every other TxData, whatever its nonce, leads to one
\* native-engine call carrying that nonce.
C12_EncodingFailsBeforeBoundary ==
    SignDone =>
        IF LocallyRejected(call.data)
        THEN /\ ret.tag = "Err"
             /\ native_calls = <<>>
             /\ res = NoResult
        ELSE /\ Len(native_calls) = 1
             /\ native_calls[1].nonce = call.nonce

C12_Witness ==
    /\ SignDone
    /\ call.data.kind = "SignTransfer"
    /\ call.data.memo[1] = "NUL"
    /\ native_calls = <<>>
    /\ ret = Err(Signing(<<"Invalid memo">>))

\* The engine function of a kind: named as the variant, with Sign in front
\* where the variant's name lacks it.
OwnFn(kind) ==
    CASE kind = "ChangePubKey" -> "SignChangePubKey"
      [] kind = "CreateOrder" -> "SignCreateOrder"
      [] kind = "SignCreateSubaccount" -> "SignCreateSubAccount"
      [] OTHER -> kind

\* One native-engine call was made, to the function of the call's own kind
\* and of no other kind.
OneCallOfOwnKind ==
    /\ Len(native_calls) = 1
    /\ native_calls[1].fn = OwnFn(call.data.kind)
    /\ \A k \in TxKinds \ {call.data.kind} : native_calls[1].fn # OwnFn(k)

\* C13 as stated: TxData has 14 kinds, and a sign_* call whose local
\* validation passes makes exactly one native-engine call, to the engine
\* function of its own kind.
C13_FourteenKindsOneCallEach ==
    (SignDone /\ ~LocallyRejected(call.data)) =>
        /\ Cardinality(TxKinds) = 14
        /\ OneCallOfOwnKind

\* C13 as amended: TxData has 15 kinds, and a sign_* call whose local
\* validation passes makes exactly one native-engine call, to the engine
\* function of its own kind.
C13_FifteenKindsOneCallEach ==
    (SignDone /\ ~LocallyRejected(call.data)) =>
        /\ Cardinality(TxKinds) = 15
        /\ OneCallOfOwnKind

C13_Witness ==
    /\ SignDone
    /\ call.data.kind = "SignMintShares"
    /\ Len(native_calls) = 1
    /\ native_calls[1].fn = "SignMintShares"

\* C14: a grouped-orders call hands the engine the whole sub-order list and a
\* count equal to its length; an empty list is handed over with count 0.
C14_WholeListWithCount ==
    (SignDone /\ call.data.kind = "SignCreateGroupedOrders") =>
        /\ Len(native_calls) = 1
        /\ native_calls[1].fn = "SignCreateGroupedOrders"
        /\ native_calls[1].list = call.data.orders
        /\ native_calls[1].len = Len(call.data.orders)

C14_Witness ==
    /\ SignDone
    /\ call.data.kind = "SignCreateGroupedOrders"
    /\ call.data.orders = <<"tp", "sl">>
    /\ Len(native_calls) = 1
    /\ native_calls[1].len = 2

\* C15: in local nonce mode the nonces handed out are strictly increasing in
\* the order the counter hands them out, hence pairwise distinct, and every
\* get_nonce call returns Ok with one of them, no two calls the same one.
C15_LocalNoncesDistinct ==
    nonce_manager.some =>
        /\ \A i \in DOMAIN handed, j \in DOMAIN handed :
               i < j => handed[i] < handed[j]
        /\ \A t \in Threads : npc[t] = "done" =>
               /\ nret[t].tag = "Ok"
               /\ \E i \in DOMAIN handed : handed[i] = nret[t].val
        /\ \A t \in Threads, u \in Threads :
               (t # u /\ npc[t] = "done" /\ npc[u] = "done") =>
                   nret[t].val # nret[u].val

\* Two concurrent calls, the one issued later holding the smaller nonce.
C15_Witness ==
    \E t \in Threads, u \in Threads :
        /\ nonce_manager.some
        /\ npc[t] = "done"
        /\ npc[u] = "done"
        /\ ticket[t] < ticket[u]
        /\ nret[t].val > nret[u].val

\* C16: the FFISigner's url, key, chain discriminator, api-key index and
\* account index never change, the indexes are those of the configuration it
\* was built from, and every native-engine call (every sign_* kind, token
\* issuance, client check) carries that api-key index and account index.
C16_IdentityFixedAndCarried ==
    /\ [](/\ ffi.some
          /\ ffi.v.api_key_index = config.api_key_index.v
          /\ ffi.v.account_index = config.account_index.v
          /\ \A i \in DOMAIN native_calls :
                native_calls[i].id = [api_key_index |-> config.api_key_index.v,
                                      account_index |-> config.account_index.v])
    /\ [][ffi' = ffi]_vars

C16_Witness ==
    /\ pc = "done"
    /\ call.op = "create_auth_token"
    /\ Len(native_calls) = 1
    /\ native_calls[1].fn = "CreateAuthToken"
    /\ native_calls[1].id = [api_key_index |-> 3, account_index |-> 2]

\* C17: the chain discriminator handed to CreateClient and kept by the signer
\* is 304 exactly when the configured base endpoint contains "mainnet", and
\* 300 otherwise; CreateClient is called once, with it and the endpoint.
C17_ChainIdFromEndpoint ==
    (pc = "built" /\ native_calls # <<>>) =>
        LET expected == IF \E i \in DOMAIN config.base_url : config.base_url[i] = "mainnet"
                        THEN 304 ELSE 300
        IN  /\ Len(native_calls) = 1
            /\ native_calls[1].fn = "CreateClient"
            /\ native_calls[1].url = config.base_url
            /\ native_calls[1].chain_id = expected
            /\ ffi.some => ffi.v.chain_id = expected

C17_Witness ==
    /\ pc = "built"
    /\ config.base_url = <<"https://", "proxy.local/", "mainnet">>
    /\ ffi.some
    /\ Len(native_calls) = 1
    /\ native_calls[1].chain_id = 304

\* C18: a transfer whose memo is valid text (UTF-8, no zero byte) makes one
\* SignTransfer call, and the memo the engine reads is the 32 bytes of the
\* intent, in order.
C18_MemoUnmodified ==
    (SignDone /\ call.data.kind = "SignTransfer" /\ ~LocallyRejected(call.data)) =>
        /\ Len(native_calls) = 1
        /\ native_calls[1].fn = "SignTransfer"
        /\ Len(native_calls[1].str) = 32
        /\ \A i \in 1..32 : native_calls[1].str[i] = call.data.memo[i]

C18_Witness ==
    /\ SignDone
    /\ call.data.kind = "SignTransfer"
    /\ Len(native_calls) = 1
    /\ native_calls[1].str[1] = "a"
    /\ native_calls[1].str[32] = "z"

\* The engine returned a txInfo that is JSON and has no MessageToSign string.
NoMessagePayload ==
    /\ SignDone
    /\ res.shape = "SignedTxResponse"
    /\ is_null(res.err)
    /\ ~is_null(res.txInfo)
    /\ from_str(res.txInfo.s).tag = "Ok"
    /\ LET payload == from_str(res.txInfo.s).val
       IN  ~(/\ payload.kind = "object"
             /\ "MessageToSign" \in DOMAIN payload.map
             /\ payload.map["MessageToSign"].t = "string")

\* C19: when the engine's JSON payload has no MessageToSign string, the sign_*
\* call returns Ok, with or without a secondary key and whether or not a
\* signature could be made (none is attempted); TxInfo.data is None and the
\* payload returned parses to the same JSON value as the engine's txInfo.
C19_NoMessagePassesThrough ==
    NoMessagePayload =>
        /\ ret.tag = "Ok"
        /\ ~ret.val.data.some
        /\ from_str(ret.val.payload) = from_str(res.txInfo.s)

C19_Witness ==
    /\ NoMessagePayload
    /\ ~eth.some
    /\ from_str(res.txInfo.s).val.kind = "object"
    /\ DOMAIN from_str(res.txInfo.s).val.map = {"MessageToSign", "Nonce"}
    /\ ret.tag = "Ok"

\* C20: a configuration without api_key_private, api_key_index or
\* account_index makes Signer::try_from fail with the error naming an item
\* that is missing; no signer is built and CreateClient is not called.
C20_MissingItemFailsConstruction ==
    (/\ pc = "built"
     /\ \/ ~config.api_key_private.some
        \/ ~config.api_key_index.some
        \/ ~config.account_index.some) =>
        /\ \/ /\ ret = Err(Generic(<<"API Private Key is not initialized">>))
              /\ ~config.api_key_private.some
           \/ /\ ret = Err(Generic(<<"API Key Index is not initialized">>))
              /\ ~config.api_key_index.some
           \/ /\ ret = Err(Generic(<<"Account Index is not initialized">>))
              /\ ~config.account_index.some
        /\ ~ffi.some
        /\ ~eth.some
        /\ native_calls = <<>>

C20_Witness ==
    /\ pc = "built"
    /\ config.api_key_private.some
    /\ config.api_key_index.some
    /\ ~config.account_index.some
    /\ config.eth_private_key.some
    /\ ret = Err(Generic(<<"Account Index is not initialized">>))
    /\ native_calls = <<>>

\* C21: whenever a sign_* call returns a TxInfo carrying a message and its
\* signature, the address recovered from that message and signature is the
\* address of the configured secondary key.
C21_RecoveredAddressIsSigner ==
    (SignDone /\ ret.tag = "Ok" /\ ret.val.data.some) =>
        /\ eth.some
        /\ recover_address_from_msg(ret.val.data.v.signature,
                                    ret.val.data.v.message) = Ok(address(eth.v))

C21_Witness ==
    /\ SignDone
    /\ ret.tag = "Ok"
    /\ ret.val.data.some
    /\ ret.val.data.v.message # <<>>
    /\ call.data.kind = "ChangePubKey"

\* C22: nothing is retried. A get_auth_token call makes at most one
\* CreateAuthToken call, and none when the cached token is returned; a sign_*
\* call makes at most one native signing call; and when the one call made
\* reports an error, the operation returns that error.
C22_NoRetry ==
    (pc = "done" /\ call.op \in {"sign", "get_auth_token"}) =>
        /\ Len(native_calls) <= 1
        /\ (call.op = "get_auth_token" /\ native_calls # <<>>) =>
               native_calls[1].fn = "CreateAuthToken"
        /\ (call.op = "sign" /\ native_calls # <<>>) =>
               native_calls[1].fn = OwnFn(call.data.kind)
        /\ (native_calls # <<>> /\ ~is_null(res.err)) =>
               ret = Err(Signing(to_string_lossy(res.err.s)))

C22_Witness ==
    /\ pc = "done"
    /\ call.op = "get_auth_token"
    /\ now > 0
    /\ auth_token.some
    /\ Len(native_calls) = 1
    /\ ~is_null(res.err)
    /\ ret.tag = "Err"

\* The next_nonce queries sent by the get_nonce call thread t is in.
QueriesOf(t) == {i \in DOMAIN queries : queries[i].ticket = ticket[t]}

\* The local counter serves every call: no query is ever sent and a returned
\* value is a nonce the counter handed out.
LocalServed ==
    /\ queries = <<>>
    /\ \A t \in Threads :
           /\ npc[t] # "next_nonce"
           /\ npc[t] = "done" =>
                  /\ nret[t].tag = "Ok"
                  /\ \E i \in DOMAIN handed : handed[i] = nret[t].val

\* The call thread t is in has sent one next_nonce query, for the indexes of
\* the client's configuration, and what it returns is the nonce of the answer
\* or the transport error.
RemoteServed(t) ==
    /\ handed = <<>>
    /\ Cardinality(QueriesOf(t)) = 1
    /\ \A i \in QueriesOf(t) :
           /\ queries[i].account_index = config.account_index.v
           /\ queries[i].api_key_index = config.api_key_index.v
    /\ npc[t] = "done" =>
           nret[t] \in {Ok(7), Err(Http(<<"transport">>))}

\* The call thread t is in has sent no query and fails for the missing API.
NotInitializedServed(t) ==
    /\ handed = <<>>
    /\ queries = <<>>
    /\ npc[t] = "done"
    /\ nret[t] = Err(Generic(<<"Transaction API not initialized">>))

\* C23 as stated: the nonce mode never changes; in local mode every get_nonce
\* call is served by the local counter and no query is sent; in remote mode
\* every get_nonce call sends one next_nonce query for the client's indexes
\* and returns its nonce or the transport error.
C23_ModeFixedRemoteAlwaysQueries ==
    [][/\ nonce_manager'.some = nonce_manager.some
       /\ nonce_manager'.some => LocalServed'
       /\ ~nonce_manager'.some =>
              \A t \in Threads : npc'[t] # "idle" => RemoteServed(t)']_vars

\* C23, amended: the nonce mode never changes; in local mode every get_nonce
\* call is served by the local counter and no query is sent; in remote mode
\* every get_nonce call on a client with the transaction API sends one
\* next_nonce query for the client's indexes and returns its nonce or the
\* transport error, and on a client without it sends no query and returns
\* the not-initialized error.
C23_ModeFixedRemoteQueriesIfApi ==
    [][/\ nonce_manager'.some = nonce_manager.some
       /\ nonce_manager'.some => LocalServed'
       /\ ~nonce_manager'.some =>
              \A t \in Threads : npc'[t] # "idle" =>
                  IF "transaction" \in apis' THEN RemoteServed(t)'
                  ELSE NotInitializedServed(t)']_vars

C23_Witness ==
    \E t \in Threads, u \in Threads :
        /\ ~nonce_manager.some
        /\ "transaction" \in apis
        /\ Len(queries) = 2
        /\ npc[t] = "done"
        /\ nret[t].tag = "Ok"
        /\ npc[u] = "done"
        /\ nret[u].tag = "Err"

\* C29: in remote nonce mode on a client built without the transaction API,
\* a get_nonce call returns Err(Generic("Transaction API not initialized"))
\* and sends no query; an accessor of the ApiInterface returns Ok exactly when
\* its API was enabled on the builder and otherwise the not-initialized error
\* of that API; and the set of enabled APIs never changes after build.
C29_MissingApiIsAnError ==
    /\ [](\A t \in Threads :
             (~nonce_manager.some /\ "transaction" \notin apis /\ npc[t] # "idle") =>
                 /\ npc[t] = "done"
                 /\ nret[t] = Err(Generic(<<"Transaction API not initialized">>))
                 /\ queries = <<>>)
    /\ [](accessed.name # "none" =>
             IF accessed.name \in apis
             THEN accessed.ret.tag = "Ok"
             ELSE accessed.ret = Err(Generic(NotInitialized(accessed.name))))
    /\ [][apis' = apis]_vars

C29_Witness ==
    \E t \in Threads :
        /\ ~nonce_manager.some
        /\ apis = {"account", "bridge", "order"}
        /\ npc[t] = "done"
        /\ nret[t].tag = "Err"
        /\ accessed.name = "funding"
        /\ accessed.ret.tag = "Err"

\* The steps of one sign_* call in their order: the native call carries the
\* nonce of the call unchanged; nothing is decoded or freed unless the native
\* call was made; and the payload is inspected only once the result is
\* decoded, so a result that decodes to an error is returned as that error,
\* whatever its payload holds.
DispatchDecodeInspect ==
    /\ native_calls # <<>> =>
           /\ Len(native_calls) = 1
           /\ native_calls[1].nonce = call.nonce
           /\ res.shape = "SignedTxResponse"
    /\ native_calls = <<>> =>
           /\ res = NoResult
           /\ frees = <<>>
           /\ ret.tag = "Err"
    /\ (native_calls # <<>> /\ parse_signed_tx_response(res).ret.tag = "Err") =>
           ret = parse_signed_tx_response(res).ret
    /\ (ret.tag = "Ok" /\ ret.val.data.some) =>
           /\ native_calls # <<>>
           /\ parse_signed_tx_response(res).ret.tag = "Ok"

\* C24 as stated: in every sign_* call the nonce was first obtained from the
\* Nonce Manager, the native call carries exactly that nonce, the result is
\* decoded after the call and the payload inspected after the decoding.
C24_NonceFromManagerThenDispatch ==
    SignDone =>
        /\ native_calls # <<>> =>
               \E i \in DOMAIN handed : handed[i] = native_calls[1].nonce
        /\ DispatchDecodeInspect

\* C24, amended: the Signer takes the nonce from its caller as an argument;
\* in every sign_* call the native call carries exactly the nonce passed in,
\* the result is decoded after the call and the payload inspected after the
\* decoding.
C24_GivenNonceThenDispatch ==
    SignDone => DispatchDecodeInspect

C24_Witness ==
    /\ SignDone
    /\ call.nonce = -1
    /\ Len(native_calls) = 1
    /\ native_calls[1].nonce = -1
    /\ handed = <<>>
    /\ ret.tag = "Ok"
    /\ ret.val.data.some

\* Each of the fields is freed once if it is non-null and not at all if it
\* is null, and nothing else is freed.
FreedOnce(fields) ==
    /\ \A f \in fields : FreeCount(f) = (IF is_null(res[f]) THEN 0 ELSE 1)
    /\ \A i \in DOMAIN frees : frees[i] \in fields

\* C25: on every exit path of parse_result (token issuance), of
\* generate_api_key and of the error check of create_client and check_client,
\* every non-null string of the engine's result is freed exactly once, and Ok
\* is returned only when every required field is non-null and the error is
\* null.
C25_NonSigningResultsFreedOnce ==
    /\ (pc = "parsed" /\ res.shape = "StrOrErr") =>
           /\ FreedOnce({"str_", "err"})
           /\ ret.tag = "Ok" => (~is_null(res.str_) /\ is_null(res.err))
    /\ pc = "generated" =>
           /\ FreedOnce({"privateKey", "publicKey", "err"})
           /\ ret.tag = "Ok" =>
                  /\ ~is_null(res.privateKey)
                  /\ ~is_null(res.publicKey)
                  /\ is_null(res.err)
    /\ pc = "checked" =>
           /\ frees = (IF is_null(res.p) THEN <<>> ELSE <<"res">>)
           /\ ret.tag = "Ok" => is_null(res.p)

C25_Witness ==
    /\ pc = "generated"
    /\ is_null(res.err)
    /\ is_null(res.privateKey)
    /\ ~is_null(res.publicKey)
    /\ frees = <<"publicKey">>
    /\ ret.tag = "Err"

\* C26: the payload of a TxInfo returned by a sign_* call has no MessageToSign
\* member, whatever value the engine gave that member; if a signature was
\* made, the payload carries it under L1Sig.
C26_NoMessageToSignInEnvelope ==
    (SignDone /\ ret.tag = "Ok") =>
        LET out == from_str(ret.val.payload)
        IN  /\ out.tag = "Ok"
            /\ "MessageToSign" \notin DOMAIN out.val.map
            /\ ret.val.data.some =>
                   /\ "L1Sig" \in DOMAIN out.val.map
                   /\ out.val.map["L1Sig"] = JString(ret.val.data.v.signature)

\* Every call so far that reached the cache used the default deadline: no
\* call in progress was given a deadline, and no token issued has one (a
\* deadline a caller gives lies below every default one).
OnlyDefaultDeadlines ==
    /\ \A t \in Threads : ~targ[t].some
    /\ \A tok \in issued : tok.expiration >= DefaultTtl

\* C28 as stated: across calls that all use the default deadline, whenever
\* the cached token is replaced, the new expiration is not earlier than the
\* old one and the old token had expired.
C28_ExpirationNeverDecreases ==
    [][(OnlyDefaultDeadlines /\ auth_token.some /\ auth_token' # auth_token) =>
           /\ auth_token'.some
           /\ auth_token'.v.expiration >= auth_token.v.expiration
           /\ now >= auth_token.v.expiration]_vars

\* C28, amended: a store by a call that uses the default deadline, during
\* which no other caller has stored, replaces a cached token only if it has
\* expired and by a token whose expiration is not earlier. (A store that
\* follows another caller's store is not bound by this: the last writer wins.)
C28_UndisturbedStoreNeverDecreases ==
    [][\A t \in Threads :
           (/\ tpc[t] = "store"
            /\ tpc'[t] = "done"
            /\ ~targ[t].some
            /\ ~dirty[t]
            /\ auth_token.some) =>
               /\ auth_token'.some
               /\ auth_token'.v.expiration >= auth_token.v.expiration
               /\ now >= auth_token.v.expiration]_vars

C28_Witness ==
    \E t \in Threads :
        /\ tpc[t] = "done"
        /\ ~targ[t].some
        /\ ~dirty[t]
        /\ entry[t].some
        /\ now >= entry[t].v.expiration
        /\ tret[t].tag = "Ok"
        /\ auth_token = Some(new_token[t])
        /\ new_token[t].expiration > entry[t].v.expiration

====
